---------------------------- MODULE Spec2Model ----------------------------
(***************************************************************************)
(* A model of the PyTorch Lightning tutorial scripts:                      *)
(*   - the MNIST dataset factory and MNISTDataModule (datamodule.py),      *)
(*   - the step functions of LitClassifier (lit_classifier.py) and of      *)
(*     ModelToProfile (train_step_proflier.py),                            *)
(*   - the entry point cli_main of lit_classifier.py.                      *)
(* Three specifications share the module: Spec (the data module),          *)
(* StepSpec (the step functions) and CliSpec (cli_main).  Each leaves the  *)
(* variables of the other two untouched.                                   *)
(*                                                                         *)
(* What the libraries do (torchvision's MNIST, the hosted MNIST of         *)
(* tests.helpers.datasets, torch.utils.data.random_split, cross entropy,   *)
(* SGD) is modelled at reduced sizes: datasets of a few examples, one      *)
(* input feature, two classes, integer fixed-point weights.                *)
(***************************************************************************)
EXTENDS Integers, Sequences, FiniteSets, TLC

VARIABLES
    \* ---- the process environment of the data module
    PL_USE_MOCKED_MNIST, \* the environment variable: "unset" or its string value
    tv_remote,           \* torchvision's download source: "ok", "HTTPError", "URLError"
    mock_remote,         \* the hosted dataset's source: "ok", "URLError"
    disk_tv,             \* directories that hold torchvision's MNIST files
    disk_mock,           \* directories that hold the hosted MNIST files
    rng,                 \* state of torch's default (ambient) random generator
    train_length,        \* len() of the MNIST training set
    \* ---- MNISTDataModule
    dm,                  \* the fields of the instance
    last,                \* what the last call on the instance did
    \* ---- step functions
    cls,                 \* "LitClassifier" or "ModelToProfile"
    automatic_optimization,
    params,              \* the module's parameters
    grad,                \* the .grad of the parameters
    momentum_buffer,     \* SGD's momentum buffer
    step,                \* what the last step function call did
    n_steps,             \* calls made so far (bounded)
    \* ---- cli_main
    pc,                  \* position in cli_main
    calls,               \* the calls cli_main made, in order
    predictions,         \* what trainer.predict returned
    printed              \* what print() was given

data_vars == <<PL_USE_MOCKED_MNIST, tv_remote, mock_remote, disk_tv, disk_mock,
               rng, train_length, dm, last>>
step_vars == <<cls, automatic_optimization, params, grad, momentum_buffer, step, n_steps>>
cli_vars  == <<pc, calls, predictions, printed>>
vars == <<data_vars, step_vars, cli_vars>>

---------------------------------------------------------------------------
\* Bounds of the model.

\* The longest training set; lengths 2..MaxTrainLen are explored.
MaxTrainLen == 3
\* val_split ranges over 0..MaxValSplit, past twice the dataset length.
MaxValSplit == 5
\* Number of states of the ambient random generator.
RngStates == 3

Max(a, b) == IF a >= b THEN a ELSE b
Min(a, b) == IF a <= b THEN a ELSE b

---------------------------------------------------------------------------
\* Python and torch helpers.

\* seq[lo:hi] of Python: negative bounds count from the end, all bounds clamp.
PySlice(seq, lo, hi) ==
    LET n == Len(seq)
        norm(i) == IF i < 0 THEN Max(i + n, 0) ELSE Min(i, n)
    IN  SubSeq(seq, norm(lo) + 1, norm(hi))

\* bool(os.getenv("PL_USE_MOCKED_MNIST", False)): unset and "" are falsy,
\* every other string (also "0") is truthy.
PyBool(v) == v \notin {"unset", ""}

RECURSIVE Factorial(_)
Factorial(n) == IF n <= 1 THEN 1 ELSE n * Factorial(n - 1)

\* seq without its i-th element.
RemoveAt(seq, i) == SubSeq(seq, 1, i - 1) \o SubSeq(seq, i + 1, Len(seq))

\* The k-th permutation (0-based, factorial number system) of the sequence items.
RECURSIVE KthPerm(_, _)
KthPerm(items, k) ==
    IF Len(items) = 0 THEN <<>>
    ELSE LET f == Factorial(Len(items) - 1)
             i == (k \div f) + 1
         IN  <<items[i]>> \o KthPerm(RemoveAt(items, i), k % f)

\* torch.randperm(n) under generator state g: a permutation of 0..n-1 fixed by g.
randperm(n, g) == KthPerm([i \in 1..n |-> i - 1], g % Factorial(n))

\* The generator's state after one draw.
rng_advance(g) == (g + 1) % RngStates

\* random_split with each subset cut at indices[offset : offset + length].
random_split_cut_after_offset(n, lengths, g) ==
    LET indices == randperm(n, g)
        o1 == lengths[1]
        o2 == lengths[1] + lengths[2]
    IN  [err |-> "none",
         subsets |-> << PySlice(indices, o1, o1 + lengths[1]),
                        PySlice(indices, o2, o2 + lengths[2]) >>,
         rng |-> rng_advance(g)]

\* torch.utils.data.random_split(dataset, [l1, l2]) with the default generator:
\* the lengths must sum to the dataset's, then one permutation is drawn and cut
\* by indices[offset - length : offset] along the accumulated lengths.
random_split(n, lengths, g) ==
    IF lengths[1] + lengths[2] # n
    THEN [err |-> "ValueError", subsets |-> <<>>, rng |-> g]
    ELSE LET indices == randperm(lengths[1] + lengths[2], g)
             o1 == lengths[1]
             o2 == lengths[1] + lengths[2]
         IN  [err |-> "none",
              subsets |-> << PySlice(indices, o1 - lengths[1], o1),
                             PySlice(indices, o2 - lengths[2], o2) >>,
              rng |-> rng_advance(g)]

---------------------------------------------------------------------------
\* The dataset implementations and the factory of datamodule.py.

Dirs == {"_DATASETS_PATH", "other_dir"}

\* torchvision.datasets.MNIST(root, download=...): with download it fetches the
\* files unless they are there (the one network access), then the files must
\* exist.  A failed fetch raises what tv_remote names.
TorchvisionMNIST(root, download, dtv) ==
    LET fetch == download /\ root \notin dtv
        dtv1  == IF fetch /\ tv_remote = "ok" THEN dtv \cup {root} ELSE dtv
    IN  [err  |-> IF fetch /\ tv_remote # "ok" THEN tv_remote
                  ELSE IF root \notin dtv1 THEN "RuntimeError" ELSE "none",
         disk |-> dtv1,
         net  |-> IF fetch THEN 1 ELSE 0]

\* tests.helpers.datasets.MNIST(root, download=...): the hosted copy, kept in
\* its own files under root and fetched from its own source.
MockedMNIST(root, download, dmock) ==
    LET fetch  == download /\ root \notin dmock
        dmock1 == IF fetch /\ mock_remote = "ok" THEN dmock \cup {root} ELSE dmock
    IN  [err  |-> IF fetch /\ mock_remote # "ok" THEN mock_remote
                  ELSE IF root \notin dmock1 THEN "RuntimeError" ELSE "none",
         disk |-> dmock1,
         net  |-> IF fetch THEN 1 ELSE 0]

\* What the except branch and the fallback branch print.
FallbackMessages(caught) ==
    (IF caught THEN <<"Error downloading torchvision.datasets.MNIST">> ELSE <<>>)
    \o <<"torchvision.datasets.MNIST not available. Using our hosted version">>

\* MNIST(root, download=...) of datamodule.py, on the disk (dtv, dmock).
\* impl is the class of the instance returned, "none" when the call raised.
MNIST(root, download, dtv, dmock) ==
    LET available == ~PyBool(PL_USE_MOCKED_MNIST)
        probe     == TorchvisionMNIST("_DATASETS_PATH", TRUE, dtv)
        caught    == available /\ probe.err = "HTTPError"
        probe_net == IF available THEN probe.net ELSE 0
    IN  IF available /\ probe.err \notin {"none", "HTTPError"}
        THEN [err |-> probe.err, impl |-> "none", disk_tv |-> probe.disk,
              disk_mock |-> dmock, net |-> probe_net, caught |-> FALSE, out |-> <<>>]
        ELSE IF available /\ probe.err = "none"
        THEN LET d == TorchvisionMNIST(root, download, probe.disk)
             IN  [err |-> d.err,
                  impl |-> IF d.err = "none" THEN "torchvision" ELSE "none",
                  disk_tv |-> d.disk, disk_mock |-> dmock,
                  net |-> probe_net + d.net, caught |-> FALSE, out |-> <<>>]
        ELSE LET d == MockedMNIST(root, download, dmock)
             IN  [err |-> d.err,
                  impl |-> IF d.err = "none" THEN "mocked" ELSE "none",
                  disk_tv |-> IF available THEN probe.disk ELSE dtv,
                  disk_mock |-> d.disk,
                  net |-> probe_net + d.net, caught |-> caught,
                  out |-> FallbackMessages(caught)]

---------------------------------------------------------------------------
\* MNISTDataModule.

\* The placeholder "..." that __init__ stores: no Subset equals it.
Ellipsis == [dataset |-> "...", indices |-> <<>>]
Seeds == {42, 7}

\* The instance after __init__.
MNISTDataModule(data_dir, val_split, seed) ==
    [data_dir |-> data_dir, val_split |-> val_split, seed |-> seed,
     dataset_train |-> Ellipsis, dataset_val |-> Ellipsis]

NoCall ==
    [op |-> "none", err |-> "none", net |-> 0, impls |-> {}, caught |-> FALSE,
     lengths |-> <<>>, disk_changed |-> FALSE, fields_changed |-> FALSE,
     after_prepare |-> FALSE, resplit |-> "no"]

\* Subset(dataset, indices).
Subset(impl, indices) == [dataset |-> impl, indices |-> indices]

\* The two factory calls of prepare_data; the second is made only if the
\* first returned.
PrepareCalls(data_dir) ==
    LET r1 == MNIST(data_dir, TRUE, disk_tv, disk_mock)
        r2 == MNIST(data_dir, TRUE, r1.disk_tv, r1.disk_mock)
    IN  IF r1.err # "none"
        THEN [err |-> r1.err, impls |-> {}, disk_tv |-> r1.disk_tv,
              disk_mock |-> r1.disk_mock, net |-> r1.net, caught |-> r1.caught]
        ELSE [err |-> r2.err,
              impls |-> {r1.impl} \cup (IF r2.err = "none" THEN {r2.impl} ELSE {}),
              disk_tv |-> r2.disk_tv, disk_mock |-> r2.disk_mock,
              net |-> r1.net + r2.net, caught |-> r1.caught \/ r2.caught]

prepare_data ==
    LET r == PrepareCalls(dm.data_dir)
    IN  /\ disk_tv' = r.disk_tv
        /\ disk_mock' = r.disk_mock
        /\ last' = [NoCall EXCEPT !.op = "prepare_data", !.err = r.err, !.net = r.net,
                       !.impls = r.impls, !.caught = r.caught,
                       !.disk_changed = (r.disk_tv # disk_tv \/ r.disk_mock # disk_mock),
                       !.after_prepare = (last.op = "prepare_data" /\ last.err = "none")]
        /\ UNCHANGED <<PL_USE_MOCKED_MNIST, tv_remote, mock_remote, rng, train_length, dm>>
        /\ UNCHANGED <<step_vars, cli_vars>>

Range(seq) == {seq[i] : i \in 1..Len(seq)}

\* Two instances hold the same partition: the same set of training indices and
\* the same set of validation indices.
SamePartition(a, b) ==
    /\ Range(a.dataset_train.indices) = Range(b.dataset_train.indices)
    /\ Range(a.dataset_val.indices) = Range(b.dataset_val.indices)

\* The new fields after setup's random_split, given the dataset it loaded.
SetupSplit(impl) ==
    LET lengths == <<train_length - dm.val_split, dm.val_split>>
        s == random_split(train_length, lengths, rng)
    IN  [err |-> s.err, lengths |-> lengths, rng |-> s.rng,
         dm |-> IF s.err # "none" THEN dm
                ELSE [dm EXCEPT !.dataset_train = Subset(impl, s.subsets[1]),
                                !.dataset_val = Subset(impl, s.subsets[2])]]

setup ==
    LET r == MNIST(dm.data_dir, FALSE, disk_tv, disk_mock)
        s == SetupSplit(r.impl)
        ok == r.err = "none"
    IN  /\ disk_tv' = r.disk_tv
        /\ disk_mock' = r.disk_mock
        /\ dm' = IF ok THEN s.dm ELSE dm
        /\ rng' = IF ok THEN s.rng ELSE rng
        /\ last' = [NoCall EXCEPT !.op = "setup",
                       !.err = IF ok THEN s.err ELSE r.err,
                       !.net = r.net,
                       !.impls = IF ok THEN {r.impl} ELSE {},
                       !.caught = r.caught,
                       !.lengths = IF ok THEN s.lengths ELSE <<>>,
                       !.disk_changed = (r.disk_tv # disk_tv \/ r.disk_mock # disk_mock),
                       !.fields_changed = (ok /\ s.dm # dm),
                       !.resplit = IF ~ok \/ s.err # "none" THEN "no"
                                   ELSE IF dm.dataset_train = Ellipsis THEN "first"
                                   ELSE IF SamePartition(s.dm, dm) THEN "same"
                                   ELSE "different"]
        /\ UNCHANGED <<PL_USE_MOCKED_MNIST, tv_remote, mock_remote, train_length>>
        /\ UNCHANGED <<step_vars, cli_vars>>

test_dataloader ==
    LET r == MNIST(dm.data_dir, FALSE, disk_tv, disk_mock)
    IN  /\ disk_tv' = r.disk_tv
        /\ disk_mock' = r.disk_mock
        /\ last' = [NoCall EXCEPT !.op = "test_dataloader", !.err = r.err, !.net = r.net,
                       !.impls = IF r.err = "none" THEN {r.impl} ELSE {},
                       !.caught = r.caught,
                       !.disk_changed = (r.disk_tv # disk_tv \/ r.disk_mock # disk_mock)]
        /\ UNCHANGED <<PL_USE_MOCKED_MNIST, tv_remote, mock_remote, rng, train_length, dm>>
        /\ UNCHANGED <<step_vars, cli_vars>>

\* The environment: the download sources come and go.
NetworkChange ==
    /\ \E t \in {"ok", "HTTPError", "URLError"}, m \in {"ok", "URLError"} :
          /\ <<t, m>> # <<tv_remote, mock_remote>>
          /\ tv_remote' = t
          /\ mock_remote' = m
    /\ UNCHANGED <<PL_USE_MOCKED_MNIST, disk_tv, disk_mock, rng, train_length, dm, last>>
    /\ UNCHANGED <<step_vars, cli_vars>>

\* The environment: other code draws from, or reseeds, the default generator.
AmbientRandom ==
    /\ \E g \in 0..(RngStates - 1) : g # rng /\ rng' = g
    /\ UNCHANGED <<PL_USE_MOCKED_MNIST, tv_remote, mock_remote, disk_tv, disk_mock,
                   train_length, dm, last>>
    /\ UNCHANGED <<step_vars, cli_vars>>

\* The variables of the other two specifications, at rest.
StepIdle ==
    /\ cls = "none" /\ automatic_optimization = TRUE /\ params = <<>> /\ grad = <<>>
    /\ momentum_buffer = <<>> /\ step = <<>> /\ n_steps = 0
CliIdle == pc = <<"idle", "idle">> /\ calls = <<>> /\ predictions = <<>> /\ printed = <<>>

Init ==
    /\ PL_USE_MOCKED_MNIST \in {"unset", "", "1"}
    /\ tv_remote = "ok"
    /\ mock_remote = "ok"
    /\ disk_tv = {}
    /\ disk_mock = {}
    /\ rng \in 0..(RngStates - 1)
    /\ train_length \in 2..MaxTrainLen
    /\ \E d \in Dirs, v \in 0..MaxValSplit, s \in Seeds : dm = MNISTDataModule(d, v, s)
    /\ last = NoCall
    /\ StepIdle
    /\ CliIdle

Next ==
    \/ prepare_data
    \/ setup
    \/ test_dataloader
    \/ NetworkChange
    \/ AmbientRandom

Spec == Init /\ [][Next]_vars

---------------------------------------------------------------------------
\* Tensors at reduced size: one input feature, one hidden unit, two classes.
\* Weights and gradients are integers (fixed point): one unit of gradient
\* times the learning rate is one unit of weight; a logit unit is ln 2.

Classes == {0, 1}
Inputs == {0, 1}

\* Largest absolute weight: an optimizer step past it is not taken.
MaxWeight == 2
\* Optimizer steps taken in one run.
MaxUpdates == 2
\* batch_size of the profiled model's loaders; LitClassifier's batches are
\* cut to the same size.
BatchSize == 2

Examples == [x : Inputs, y : Classes]
Batches == [1..BatchSize -> Examples]

relu(v) == Max(v, 0)
Sign(v) == IF v > 0 THEN 1 ELSE IF v < 0 THEN -1 ELSE 0
Abs(v) == IF v < 0 THEN -v ELSE v
\* a / b rounded to the nearest integer, halves up (b > 0).
RoundDiv(a, b) == (2 * a + b) \div (2 * b)

RECURSIVE Pow2(_)
Pow2(k) == IF k <= 0 THEN 1 ELSE 2 * Pow2(k - 1)

RECURSIVE SumOver(_, _)
SumOver(f, S) ==
    IF S = {} THEN 0
    ELSE LET k == CHOOSE k \in S : TRUE IN f[k] + SumOver(f, S \ {k})

RECURSIVE SumSeq(_)
SumSeq(q) == IF Len(q) = 0 THEN 0 ELSE Head(q) + SumSeq(Tail(q))

\* floor(log2(n / d)) for n >= d > 0, and -ceil(log2(d / n)) below it.
RECURSIVE FloorLog2(_, _)
FloorLog2(n, d) ==
    IF n >= 2 * d THEN 1 + FloorLog2(n, 2 * d)
    ELSE IF n >= d THEN 0
    ELSE -1 + FloorLog2(2 * n, d)

\* exp of the logits, shifted by the smallest one (softmax's numerators).
ExpLogits(logits) ==
    LET lmin == CHOOSE m \in {logits[k] : k \in Classes} :
                    \A k \in Classes : m <= logits[k]
    IN  [k \in Classes |-> Pow2(logits[k] - lmin)]

\* Cross entropy of one row of logits against target y:
\* log(sum of exp(logits)) - logits[y], in whole logit units.
CrossEntropyRow(logits, y) ==
    LET e == ExpLogits(logits) IN FloorLog2(SumOver(e, Classes), e[y])

\* The mean log-likelihood of the targets: cross entropy with the sign lost.
cross_entropy_sign_lost(y_hat, y) ==
    SumSeq([i \in 1..Len(y_hat) |-> -CrossEntropyRow(y_hat[i], y[i])]) \div Len(y_hat)

\* F.cross_entropy / torch.nn.CrossEntropyLoss on a batch: the mean of the rows.
cross_entropy(y_hat, y) ==
    SumSeq([i \in 1..Len(y_hat) |-> CrossEntropyRow(y_hat[i], y[i])]) \div Len(y_hat)

\* d loss / d logits[k] of one row: softmax[k] - (k = y), rounded.
SoftmaxGradRow(logits, y) ==
    LET e == ExpLogits(logits)
        s == SumOver(e, Classes)
    IN  [k \in Classes |-> RoundDiv(e[k] - (IF k = y THEN s ELSE 0), s)]

---------------------------------------------------------------------------
\* The networks.

ZeroParams == [l1w |-> 0, l1b |-> 0, w |-> [k \in Classes |-> 0], b |-> [k \in Classes |-> 0]]

\* Backbone.forward on one flattened input: relu(l2(relu(l1(x)))).
Backbone_forward(p, x) ==
    LET h == relu(p.l1w * x + p.l1b)
    IN  [k \in Classes |-> relu(p.w[k] * h + p.b[k])]

\* resnet18 on one input: relu features, then the fc layer.
resnet_forward(p, x) ==
    LET h == relu(p.l1w * x + p.l1b)
    IN  [k \in Classes |-> p.w[k] * h + p.b[k]]

\* The module's forward pass on a batch of inputs.
forward(c, p, xs) ==
    [i \in 1..Len(xs) |-> IF c = "LitClassifier" THEN Backbone_forward(p, xs[i])
                          ELSE resnet_forward(p, xs[i])]

BatchInputs(batch) == [i \in 1..Len(batch) |-> batch[i].x]
BatchLabels(batch) == [i \in 1..Len(batch) |-> batch[i].y]

\* Autograd of the mean cross entropy through the network, for one example.
BackwardRow(c, p, x, y) ==
    LET z1 == p.l1w * x + p.l1b
        h  == relu(z1)
        z2 == [k \in Classes |-> p.w[k] * h + p.b[k]]
        out == [k \in Classes |-> IF c = "LitClassifier" THEN relu(z2[k]) ELSE z2[k]]
        dout == SoftmaxGradRow(out, y)
        dz2 == [k \in Classes |-> IF c = "LitClassifier" /\ z2[k] <= 0 THEN 0 ELSE dout[k]]
        dh  == SumOver([k \in Classes |-> dz2[k] * p.w[k]], Classes)
        dz1 == IF z1 > 0 THEN dh ELSE 0
    IN  [l1w |-> dz1 * x, l1b |-> dz1,
         w |-> [k \in Classes |-> dz2[k] * h], b |-> dz2]

\* loss.backward() for the batch's mean loss: the mean of the rows' gradients.
Backward(c, p, batch) ==
    LET rows == [i \in 1..Len(batch) |-> BackwardRow(c, p, batch[i].x, batch[i].y)]
        n == Len(batch)
    IN  [l1w |-> RoundDiv(SumSeq([i \in 1..n |-> rows[i].l1w]), n),
         l1b |-> RoundDiv(SumSeq([i \in 1..n |-> rows[i].l1b]), n),
         w |-> [k \in Classes |-> RoundDiv(SumSeq([i \in 1..n |-> rows[i].w[k]]), n)],
         b |-> [k \in Classes |-> RoundDiv(SumSeq([i \in 1..n |-> rows[i].b[k]]), n)]]

Plus(a, b) == a + b
Minus(a, b) == a - b
\* SGD's momentum buffer: momentum * buf + grad, momentum = 0.9.
MomentumOf(buf, g) == RoundDiv(9 * buf, 10) + g
\* Adam's normalised step, one learning-rate unit along the gradient's sign.
AdamMove(v, g) == v - Sign(g)

\* The four, pointwise on parameter-shaped records.
AddParams(a, b) ==
    [l1w |-> Plus(a.l1w, b.l1w), l1b |-> Plus(a.l1b, b.l1b),
     w |-> [k \in Classes |-> Plus(a.w[k], b.w[k])],
     b |-> [k \in Classes |-> Plus(a.b[k], b.b[k])]]
SubParams(a, b) ==
    [l1w |-> Minus(a.l1w, b.l1w), l1b |-> Minus(a.l1b, b.l1b),
     w |-> [k \in Classes |-> Minus(a.w[k], b.w[k])],
     b |-> [k \in Classes |-> Minus(a.b[k], b.b[k])]]
MomentumParams(a, b) ==
    [l1w |-> MomentumOf(a.l1w, b.l1w), l1b |-> MomentumOf(a.l1b, b.l1b),
     w |-> [k \in Classes |-> MomentumOf(a.w[k], b.w[k])],
     b |-> [k \in Classes |-> MomentumOf(a.b[k], b.b[k])]]
AdamParams(a, b) ==
    [l1w |-> AdamMove(a.l1w, b.l1w), l1b |-> AdamMove(a.l1b, b.l1b),
     w |-> [k \in Classes |-> AdamMove(a.w[k], b.w[k])],
     b |-> [k \in Classes |-> AdamMove(a.b[k], b.b[k])]]

WithinCap(p) ==
    /\ Abs(p.l1w) <= MaxWeight /\ Abs(p.l1b) <= MaxWeight
    /\ \A k \in Classes : Abs(p.w[k]) <= MaxWeight /\ Abs(p.b[k]) <= MaxWeight

---------------------------------------------------------------------------
\* A LightningModule during one step function call: its parameters, their
\* .grad, the optimizer's buffer, and what the call has done so far.

Module(p, g, buf) ==
    [params |-> p, grad |-> g, buf |-> buf, calls |-> <<>>, logged |-> <<>>,
     grad_used |-> ZeroParams]

Called(m, name) == [m EXCEPT !.calls = Append(@, name)]

\* self.log(name, value)
log(m, name, value) ==
    [Called(m, "log") EXCEPT !.logged = Append(@, [name |-> name, value |-> value])]

\* opt.zero_grad()
zero_grad(m) == [Called(m, "zero_grad") EXCEPT !.grad = ZeroParams]

\* self.manual_backward(loss) / loss.backward(): gradients add onto .grad.
manual_backward(c, m, batch) ==
    [Called(m, "manual_backward") EXCEPT
        !.grad = AddParams(m.grad, Backward(c, m.params, batch))]

\* opt.step() of torch.optim.SGD(lr=0.001, momentum=0.9).
SGD_step(m) ==
    LET buf == MomentumParams(m.buf, m.grad)
    IN  [Called(m, "step") EXCEPT !.buf = buf, !.params = SubParams(m.params, buf),
                                  !.grad_used = m.grad]

\* optimizer.step() of torch.optim.Adam(lr=learning_rate).
Adam_step(m) ==
    [Called(m, "step") EXCEPT !.params = AdamParams(m.params, m.grad),
                              !.grad_used = m.grad]

\* What a step function returns.
None == [kind |-> "None", scalar |-> 0, tensor |-> <<>>]
Scalar(v) == [kind |-> "scalar", scalar |-> v, tensor |-> <<>>]
Tensor(t) == [kind |-> "tensor", scalar |-> 0, tensor |-> t]

---------------------------------------------------------------------------
\* LitClassifier's step functions.

\* training_step without its return statement.
LitClassifier_training_step_no_return(m, batch, batch_idx) ==
    LET x == BatchInputs(batch)
        y == BatchLabels(batch)
        y_hat == forward("LitClassifier", m.params, x)
        loss == cross_entropy(y_hat, y)
        m1 == Called(Called(m, "forward"), "cross_entropy")
    IN  [ret |-> None, m |-> log(m1, "train_loss", loss)]

LitClassifier_training_step(m, batch, batch_idx) ==
    LET x == BatchInputs(batch)
        y == BatchLabels(batch)
        y_hat == forward("LitClassifier", m.params, x)
        loss == cross_entropy(y_hat, y)
        m1 == Called(Called(m, "forward"), "cross_entropy")
    IN  [ret |-> Scalar(loss), m |-> log(m1, "train_loss", loss)]

LitClassifier_validation_step(m, batch, batch_idx) ==
    LET x == BatchInputs(batch)
        y == BatchLabels(batch)
        y_hat == forward("LitClassifier", m.params, x)
        loss == cross_entropy(y_hat, y)
        m1 == Called(Called(m, "forward"), "cross_entropy")
    IN  [ret |-> None, m |-> log(m1, "valid_loss", loss)]

LitClassifier_test_step(m, batch, batch_idx) ==
    LET x == BatchInputs(batch)
        y == BatchLabels(batch)
        y_hat == forward("LitClassifier", m.params, x)
        loss == cross_entropy(y_hat, y)
        m1 == Called(Called(m, "forward"), "cross_entropy")
    IN  [ret |-> None, m |-> log(m1, "test_loss", loss)]

LitClassifier_predict_step(m, batch, batch_idx) ==
    LET x == BatchInputs(batch)
    IN  [ret |-> Tensor(forward("LitClassifier", m.params, x)), m |-> Called(m, "forward")]

---------------------------------------------------------------------------
\* ModelToProfile's step functions.

automatic_optimization_training_step(m, batch, batch_idx) ==
    LET inputs == BatchInputs(batch)
        labels == BatchLabels(batch)
        outputs == forward("ModelToProfile", m.params, inputs)
        loss == cross_entropy(outputs, labels)
        m1 == Called(Called(m, "forward"), "criterion")
    IN  [ret |-> Scalar(loss), m |-> log(m1, "train_loss", loss)]

\* The manual step with the gradients zeroed after the optimizer step
\* instead of before the forward pass.
manual_optimization_training_step_zero_last(m, batch, batch_idx) ==
    LET opt == Called(m, "optimizers")
        inputs == BatchInputs(batch)
        labels == BatchLabels(batch)
        outputs == forward("ModelToProfile", opt.params, inputs)
        loss == cross_entropy(outputs, labels)
        m2 == Called(Called(opt, "forward"), "criterion")
        m3 == log(m2, "train_loss", loss)
        m4 == manual_backward("ModelToProfile", m3, batch)
    IN  [ret |-> None, m |-> zero_grad(SGD_step(m4))]

manual_optimization_training_step(m, batch, batch_idx) ==
    LET opt == Called(m, "optimizers")
        m1 == zero_grad(opt)
        inputs == BatchInputs(batch)
        labels == BatchLabels(batch)
        outputs == forward("ModelToProfile", m1.params, inputs)
        loss == cross_entropy(outputs, labels)
        m2 == Called(Called(m1, "forward"), "criterion")
        m3 == log(m2, "train_loss", loss)
        m4 == manual_backward("ModelToProfile", m3, batch)
    IN  [ret |-> None, m |-> SGD_step(m4)]

\* self.training_step as __init__ binds it.
ModelToProfile_training_step(ao, m, batch, batch_idx) ==
    IF ao THEN automatic_optimization_training_step(m, batch, batch_idx)
    ELSE manual_optimization_training_step(m, batch, batch_idx)

\* validation_step that also backpropagates and steps the optimizer.
ModelToProfile_validation_step_optimizing(m, batch, batch_idx) ==
    LET inputs == BatchInputs(batch)
        labels == BatchLabels(batch)
        outputs == forward("ModelToProfile", m.params, inputs)
        loss == cross_entropy(outputs, labels)
        m1 == Called(Called(m, "forward"), "criterion")
        m2 == log(m1, "val_loss", loss)
    IN  [ret |-> None, m |-> SGD_step(manual_backward("ModelToProfile", m2, batch))]

ModelToProfile_validation_step(m, batch, batch_idx) ==
    LET inputs == BatchInputs(batch)
        labels == BatchLabels(batch)
        outputs == forward("ModelToProfile", m.params, inputs)
        loss == cross_entropy(outputs, labels)
        m1 == Called(Called(m, "forward"), "criterion")
    IN  [ret |-> None, m |-> log(m1, "val_loss", loss)]

ModelToProfile_predict_step(m, batch, batch_idx) ==
    LET inputs == BatchInputs(batch)
    IN  [ret |-> Tensor(forward("ModelToProfile", m.params, inputs)),
         m |-> Called(m, "forward")]

---------------------------------------------------------------------------
\* The trainer calling the step functions (specification StepSpec).

NoStep ==
    [phase |-> "none", batch |-> <<>>, before |-> ZeroParams, ret |-> None,
     logged |-> <<>>, calls |-> <<>>, grad_used |-> ZeroParams, mutated |-> FALSE,
     pending |-> FALSE]

\* One call of a step function with result r: the module's state is replaced
\* by the state the call left.  A call that moves a weight past MaxWeight, or
\* updates after MaxUpdates updates, is not explored.
Invoke(phase, batch, r) ==
    LET updates == r.m.params # params
    IN  /\ WithinCap(r.m.params)
        /\ updates => n_steps < MaxUpdates
        /\ params' = r.m.params
        /\ grad' = r.m.grad
        /\ momentum_buffer' = r.m.buf
        /\ n_steps' = IF updates THEN n_steps + 1 ELSE n_steps
        /\ step' = [phase |-> phase, batch |-> batch, before |-> params, ret |-> r.ret,
                    logged |-> r.m.logged, calls |-> r.m.calls,
                    grad_used |-> r.m.grad_used, mutated |-> updates,
                    pending |-> (phase = "train" /\ automatic_optimization
                                 /\ r.ret.kind = "scalar")]
        /\ UNCHANGED <<cls, automatic_optimization>>
        /\ UNCHANGED <<data_vars, cli_vars>>

Self == Module(params, grad, momentum_buffer)
BatchIndices == {0}

Lit_training_step ==
    /\ cls = "LitClassifier"
    /\ \E batch \in Batches, i \in BatchIndices :
          Invoke("train", batch, LitClassifier_training_step(Self, batch, i))

Lit_validation_step ==
    /\ cls = "LitClassifier"
    /\ \E batch \in Batches, i \in BatchIndices :
          Invoke("validate", batch, LitClassifier_validation_step(Self, batch, i))

Lit_test_step ==
    /\ cls = "LitClassifier"
    /\ \E batch \in Batches, i \in BatchIndices :
          Invoke("test", batch, LitClassifier_test_step(Self, batch, i))

Lit_predict_step ==
    /\ cls = "LitClassifier"
    /\ \E batch \in Batches, i \in BatchIndices :
          Invoke("predict", batch, LitClassifier_predict_step(Self, batch, i))

Profile_training_step ==
    /\ cls = "ModelToProfile"
    /\ \E batch \in Batches, i \in BatchIndices :
          Invoke("train", batch,
                 ModelToProfile_training_step(automatic_optimization, Self, batch, i))

Profile_validation_step ==
    /\ cls = "ModelToProfile"
    /\ \E batch \in Batches, i \in BatchIndices :
          Invoke("validate", batch, ModelToProfile_validation_step(Self, batch, i))

Profile_predict_step ==
    /\ cls = "ModelToProfile"
    /\ \E batch \in Batches, i \in BatchIndices :
          Invoke("predict", batch, ModelToProfile_predict_step(Self, batch, i))

\* The optimizer of configure_optimizers.
configure_optimizers(c, m) == IF c = "LitClassifier" THEN Adam_step(m) ELSE SGD_step(m)

\* Automatic optimization: after training_step returned its loss the trainer
\* zeroes the gradients, backpropagates the loss and steps the optimizer.
TrainerOptimizerStep ==
    LET m == configure_optimizers(cls, manual_backward(cls, zero_grad(Self), step.batch))
    IN  /\ step.pending
        /\ n_steps < MaxUpdates
        /\ WithinCap(m.params)
        /\ params' = m.params
        /\ grad' = m.grad
        /\ momentum_buffer' = m.buf
        /\ n_steps' = n_steps + 1
        /\ step' = [step EXCEPT !.pending = FALSE]
        /\ UNCHANGED <<cls, automatic_optimization>>
        /\ UNCHANGED <<data_vars, cli_vars>>

DataIdle ==
    /\ PL_USE_MOCKED_MNIST = "unset" /\ tv_remote = "ok" /\ mock_remote = "ok"
    /\ disk_tv = {} /\ disk_mock = {} /\ rng = 0 /\ train_length = 2
    /\ dm = MNISTDataModule("_DATASETS_PATH", 0, 42) /\ last = NoCall

\* Parameters after construction (pretrained, or freshly initialised).
InitParams ==
    {[ZeroParams EXCEPT !.l1w = 1, !.w = w] : w \in [Classes -> -1..1]}

StepInit ==
    /\ cls \in {"LitClassifier", "ModelToProfile"}
    /\ automatic_optimization \in BOOLEAN
    /\ cls = "LitClassifier" => automatic_optimization
    /\ params \in InitParams
    /\ grad = ZeroParams
    /\ momentum_buffer = ZeroParams
    /\ step = NoStep
    /\ n_steps = 0
    /\ DataIdle
    /\ CliIdle

StepNext ==
    \/ Lit_training_step
    \/ Lit_validation_step
    \/ Lit_test_step
    \/ Lit_predict_step
    \/ Profile_training_step
    \/ Profile_validation_step
    \/ Profile_predict_step
    \/ TrainerOptimizerStep

StepSpec == StepInit /\ [][StepNext]_vars

---------------------------------------------------------------------------
\* cli_main of lit_classifier.py (specification CliSpec).  pc is
\* <<statement, status>>; each call is entered and left in separate steps.
\* What LightningCLI and the trainer do inside a call is theirs: a call
\* returns or raises.

\* Most batches trainer.predict returns predictions for.
MaxPredictBatches == 2

\* MyDataModule.__init__: the two factory calls, then random_split.
MyDataModule_init ==
    LET r1 == MNIST("_DATASETS_PATH", TRUE, disk_tv, disk_mock)
        r2 == MNIST("_DATASETS_PATH", TRUE, r1.disk_tv, r1.disk_mock)
    IN  IF r1.err # "none"
        THEN [err |-> r1.err, disk_tv |-> r1.disk_tv, disk_mock |-> r1.disk_mock,
              rng |-> rng]
        ELSE [err |-> r2.err, disk_tv |-> r2.disk_tv, disk_mock |-> r2.disk_mock,
              rng |-> IF r2.err = "none" THEN rng_advance(rng) ELSE rng]

\* cli_main with predict called before test.
cli_main_next_predict_first(c) ==
    CASE c = "LightningCLI" -> "fit"
      [] c = "fit" -> "predict"
      [] c = "predict" -> "test"
      [] c = "test" -> "print"
      [] c = "print" -> "end"

\* The statement cli_main runs once statement c has returned.
cli_main_next(c) ==
    CASE c = "LightningCLI" -> "fit"
      [] c = "fit" -> "test"
      [] c = "test" -> "predict"
      [] c = "predict" -> "print"
      [] c = "print" -> "end"

\* Where cli_main is once statement c has raised: the exception leaves it.
cli_main_raise(c) == <<c, "raised">>

Event(c, e) == [call |-> c, event |-> e]

Enter(c) ==
    /\ pc = <<c, "ready">>
    /\ pc' = <<c, "running">>
    /\ calls' = Append(calls, Event(c, "start"))

Leave(c, ok) ==
    /\ pc = <<c, "running">>
    /\ calls' = Append(calls, Event(c, IF ok THEN "return" ELSE "raise"))
    /\ pc' = IF ok THEN <<cli_main_next(c), "ready">> ELSE cli_main_raise(c)

CliFrame == UNCHANGED <<PL_USE_MOCKED_MNIST, tv_remote, mock_remote, train_length, dm, last>>
            /\ UNCHANGED step_vars

\* cli = LightningCLI(LitClassifier, MyDataModule, ..., run=False)
EnterLightningCLI ==
    /\ Enter("LightningCLI")
    /\ UNCHANGED <<disk_tv, disk_mock, rng, predictions, printed>> /\ CliFrame

LeaveLightningCLI ==
    LET d == MyDataModule_init
    IN  /\ \E cli_ok \in BOOLEAN : Leave("LightningCLI", cli_ok /\ d.err = "none")
        /\ disk_tv' = d.disk_tv
        /\ disk_mock' = d.disk_mock
        /\ rng' = d.rng
        /\ UNCHANGED <<predictions, printed>> /\ CliFrame

\* cli.trainer.fit(cli.model, datamodule=cli.datamodule)
EnterFit ==
    /\ Enter("fit")
    /\ UNCHANGED <<disk_tv, disk_mock, rng, predictions, printed>> /\ CliFrame

LeaveFit ==
    /\ \E ok \in BOOLEAN : Leave("fit", ok)
    /\ UNCHANGED <<disk_tv, disk_mock, rng, predictions, printed>> /\ CliFrame

\* cli.trainer.test(ckpt_path="best", datamodule=cli.datamodule)
EnterTest ==
    /\ Enter("test")
    /\ UNCHANGED <<disk_tv, disk_mock, rng, predictions, printed>> /\ CliFrame

LeaveTest ==
    /\ \E ok \in BOOLEAN : Leave("test", ok)
    /\ UNCHANGED <<disk_tv, disk_mock, rng, predictions, printed>> /\ CliFrame

\* predictions = cli.trainer.predict(ckpt_path="best", datamodule=cli.datamodule)
EnterPredict ==
    /\ Enter("predict")
    /\ UNCHANGED <<disk_tv, disk_mock, rng, predictions, printed>> /\ CliFrame

LeavePredict ==
    /\ \/ /\ Leave("predict", TRUE)
          /\ \E n \in 0..MaxPredictBatches :
                predictions' = [i \in 1..n |-> [batch_idx |-> i - 1]]
       \/ /\ Leave("predict", FALSE)
          /\ UNCHANGED predictions
    /\ UNCHANGED <<disk_tv, disk_mock, rng, printed>> /\ CliFrame

\* print(predictions[0]): predictions[0] raises IndexError on an empty list.
EnterPrint ==
    /\ Enter("print")
    /\ UNCHANGED <<disk_tv, disk_mock, rng, predictions, printed>> /\ CliFrame

LeavePrint ==
    /\ Leave("print", Len(predictions) > 0)
    /\ printed' = IF Len(predictions) > 0 THEN <<predictions[1]>> ELSE printed
    /\ UNCHANGED <<disk_tv, disk_mock, rng, predictions>> /\ CliFrame

CliInit ==
    /\ PL_USE_MOCKED_MNIST \in {"unset", "", "1"}
    /\ tv_remote \in {"ok", "HTTPError", "URLError"}
    /\ mock_remote \in {"ok", "URLError"}
    /\ disk_tv \in {{}, {"_DATASETS_PATH"}}
    /\ disk_mock = {}
    /\ rng = 0 /\ train_length = 2
    /\ dm = MNISTDataModule("_DATASETS_PATH", 0, 42) /\ last = NoCall
    /\ StepIdle
    /\ pc = <<"LightningCLI", "ready">>
    /\ calls = <<>>
    /\ predictions = <<>>
    /\ printed = <<>>

CliNext ==
    \/ EnterLightningCLI
    \/ LeaveLightningCLI
    \/ EnterFit
    \/ LeaveFit
    \/ EnterTest
    \/ LeaveTest
    \/ EnterPredict
    \/ LeavePredict
    \/ EnterPrint
    \/ LeavePrint

CliSpec == CliInit /\ [][CliNext]_vars

---------------------------------------------------------------------------
\* Claims about the data module (specification Spec).

\* dataset_train and dataset_val hold subsets (setup() has assigned them).
SplitAssigned == dm.dataset_train # Ellipsis /\ dm.dataset_val # Ellipsis

\* C1: once setup() has assigned the subsets, for val_split < len(dataset),
\* dataset_train and dataset_val have N - val_split and val_split indices, no
\* index twice, none in both, and together every index 0..N-1.
C1_SplitPartitionsTrainingSet ==
    (SplitAssigned /\ dm.val_split < train_length) =>
        LET tr == dm.dataset_train.indices
            va == dm.dataset_val.indices
        IN  /\ Len(tr) = train_length - dm.val_split
            /\ Len(va) = dm.val_split
            /\ Cardinality(Range(tr)) = Len(tr)
            /\ Cardinality(Range(va)) = Len(va)
            /\ Range(tr) \cap Range(va) = {}
            /\ Range(tr) \cup Range(va) = 0..(train_length - 1)

\* C1 witness: setup() has just split a 3-example dataset into 2 and 1.
C1_Witness ==
    /\ last.op = "setup" /\ last.err = "none"
    /\ train_length = 3 /\ dm.val_split = 1
    /\ Len(dm.dataset_train.indices) = 2 /\ Len(dm.dataset_val.indices) = 1

\* C2 (as claimed): a setup() that follows an earlier setup() of the same
\* instance (same seed, val_split < len(dataset)) assigns the same index
\* partition as the earlier one.
C2_SameSeedSamePartition ==
    (last.op = "setup" /\ last.err = "none" /\ dm.val_split < train_length)
        => last.resplit \in {"first", "same"}

\* C3 (as claimed): with val_split > len(dataset), a setup() that loaded the
\* dataset fails with the data module's own configuration error, hands no
\* lengths (so no negative one) to random_split and assigns no subsets.
C3_OversizedSplitIsConfigError ==
    (last.op = "setup" /\ last.impls # {} /\ dm.val_split > train_length) =>
        /\ last.err = "MisconfigurationException"
        /\ last.lengths = <<>>
        /\ ~SplitAssigned

\* C4 (as claimed): a call during which fetching torchvision's MNIST raised
\* HTTPError ends in an error and returns no instance of the mocked dataset.
C4_DownloadFailureIsLoud ==
    (last.op # "none" /\ last.caught) =>
        (last.err # "none" /\ "mocked" \notin last.impls)

\* C5 (as claimed): a prepare_data() that follows a prepare_data() which
\* returned makes no network access, raises nothing, and leaves the disk and
\* the fields as they were.
C5_SecondPrepareIsNoOp ==
    (last.op = "prepare_data" /\ last.after_prepare) =>
        /\ last.net = 0
        /\ last.err = "none"
        /\ ~last.disk_changed
        /\ ~last.fields_changed

---------------------------------------------------------------------------
\* Claims about the step functions (specification StepSpec).

\* The loss the step recorded in `step` computes: cross entropy of the forward
\* pass, on the parameters the call found, against the batch's labels.
StepLoss ==
    cross_entropy(forward(cls, step.before, BatchInputs(step.batch)),
                  BatchLabels(step.batch))

Logged(name, value) == <<[name |-> name, value |-> value]>>
ManualTrain == cls = "ModelToProfile" /\ ~automatic_optimization /\ step.phase = "train"

\* C6 (as claimed): LitClassifier's training_step, validation_step and
\* test_step each return the scalar loss they computed, and predict_step
\* returns the predictions for the batch inputs.
C6_EveryStepReturnsItsResult ==
    (cls = "LitClassifier" /\ step.phase # "none") =>
        IF step.phase = "predict"
        THEN step.ret = Tensor(forward(cls, step.before, BatchInputs(step.batch)))
        ELSE step.ret = Scalar(StepLoss)

\* C6 (amended): training_step returns the scalar loss it computed and logged
\* as train_loss; validation_step and test_step compute the loss and log it
\* (valid_loss, test_loss) but return None; predict_step returns the
\* predictions for the batch inputs and logs nothing.
C6_StepResults ==
    (cls = "LitClassifier" /\ step.phase # "none") =>
        /\ step.phase = "train" =>
              step.ret = Scalar(StepLoss) /\ step.logged = Logged("train_loss", StepLoss)
        /\ step.phase = "validate" =>
              step.ret = None /\ step.logged = Logged("valid_loss", StepLoss)
        /\ step.phase = "test" =>
              step.ret = None /\ step.logged = Logged("test_loss", StepLoss)
        /\ step.phase = "predict" =>
              /\ step.ret = Tensor(forward(cls, step.before, BatchInputs(step.batch)))
              /\ step.logged = <<>>

\* C6 witness: a validation_step that logged a positive loss and returned None.
C6_Witness ==
    /\ cls = "LitClassifier" /\ step.phase = "validate"
    /\ step.ret = None /\ Len(step.logged) = 1 /\ step.logged[1].value > 0

\* C7 (as claimed): the train-phase step function returns one non-negative
\* scalar loss, for LitClassifier and for ModelToProfile in both modes.
C7_TrainStepReturnsNonNegativeLoss ==
    step.phase = "train" => (step.ret.kind = "scalar" /\ step.ret.scalar >= 0)

\* C7 (amended): LitClassifier.training_step and ModelToProfile's automatic
\* training step return one non-negative scalar loss; ModelToProfile's manual
\* training step returns None, having logged that non-negative loss as
\* train_loss.
C7_TrainStepLoss ==
    step.phase = "train" =>
        IF ManualTrain
        THEN step.ret = None /\ step.logged = Logged("train_loss", StepLoss) /\ StepLoss >= 0
        ELSE step.ret = Scalar(StepLoss) /\ StepLoss >= 0

\* C7 witness: the automatic training step returned a positive loss.
C7_Witness ==
    /\ cls = "ModelToProfile" /\ automatic_optimization /\ step.phase = "train"
    /\ step.ret.kind = "scalar" /\ step.ret.scalar > 0

\* C8 (as claimed): no step function changes the parameters, in either class
\* and either optimization mode.
C8_NoStepMutatesParameters ==
    step.phase # "none" => ~step.mutated

\* C8 (amended): no step function changes the parameters except
\* ModelToProfile's manual training step, which calls the optimizer's step
\* itself: a call that changed them is that step, and it changed them by the
\* momentum buffer its opt.step() computed.
C8_OnlyManualTrainStepMutates ==
    /\ (step.phase # "none" /\ step.mutated) =>
          (ManualTrain /\ step.calls[Len(step.calls)] = "step")
    /\ ManualTrain => params = SubParams(step.before, momentum_buffer)

\* C8 witness: a validation_step on parameters that training had already
\* changed left them as they were.
C8_Witness ==
    /\ cls = "ModelToProfile" /\ ~automatic_optimization
    /\ step.phase = "validate" /\ n_steps > 0 /\ ~step.mutated /\ params = step.before

ManualOrder ==
    <<"optimizers", "zero_grad", "forward", "criterion", "log", "manual_backward", "step">>

\* C10: ModelToProfile's manual training step makes, once each and in this
\* order, the calls zero_grad, forward, loss, log(train_loss), manual_backward,
\* step, and the gradient its optimizer step uses is the gradient of this
\* batch's loss alone; the automatic training step calls none of zero_grad,
\* manual_backward and step and uses no gradient.
C10_ManualStepOrder ==
    (cls = "ModelToProfile" /\ step.phase = "train") =>
        IF ~automatic_optimization
        THEN /\ step.calls = ManualOrder
             /\ step.logged = Logged("train_loss", StepLoss)
             /\ step.grad_used = Backward(cls, step.before, step.batch)
        ELSE /\ \A i \in 1..Len(step.calls) :
                    step.calls[i] \notin {"zero_grad", "manual_backward", "step"}
             /\ step.grad_used = ZeroParams
             /\ ~step.mutated

\* C10 witness: a second manual step (the first left its gradient behind) used
\* a non-zero gradient.
C10_Witness ==
    /\ ManualTrain /\ n_steps = 2 /\ step.mutated
    /\ step.grad_used # ZeroParams

---------------------------------------------------------------------------
\* Claims about cli_main (specification CliSpec).

CliOrder == <<"LightningCLI", "fit", "test", "predict", "print">>

\* C9: cli_main makes its calls (building the CLI, fit, test, predict, print)
\* once each in that order; each starts right after the one before returned,
\* nothing follows a call that raised, and what is printed is the first
\* element of what predict returned.
C9_FitTestPredictInOrder ==
    /\ Len(calls) <= 2 * Len(CliOrder)
    /\ \A i \in 1..Len(calls) :
          /\ calls[i].call = CliOrder[(i + 1) \div 2]
          /\ calls[i].event = (IF i % 2 = 1 THEN "start"
                               ELSE IF i < Len(calls) THEN "return"
                               ELSE calls[i].event)
          /\ calls[i].event \in {"start", "return", "raise"}
    /\ printed # <<>> =>
          /\ \E j \in 1..Len(calls) : calls[j] = Event("predict", "return")
          /\ printed = <<predictions[1]>>
    /\ pc[2] = "raised" => calls[Len(calls)] = Event(pc[1], "raise")
    /\ pc[1] = "end" => Len(calls) = 2 * Len(CliOrder)

\* C9 witness: cli_main ran to its end and printed the first prediction.
C9_Witness ==
    /\ pc = <<"end", "ready">> /\ printed # <<>>
    /\ calls[3] = Event("fit", "start") /\ calls[5] = Event("test", "start")
    /\ calls[7] = Event("predict", "start")

===========================================================================
